---- MODULE Spec2Model ----
(***************************************************************************)
(* A model of graphmat's matching core: the Levenshtein routines           *)
(* (src/src/levenshtein.rs), the edge-labelling heuristics                 *)
(* (src/src/heuristics.rs), the adjacency-list graph (src/src/graph.rs)    *)
(* and the belief propagator (src/src/belief_prop.rs).                     *)
(*                                                                         *)
(* Three specifications share the variables:                               *)
(*   LevSpec  one run of levenshtein / levenshtein_matrix / Edits::apply   *)
(*   LabSpec  one labelling by CallOrder, RelativeCodeSize and Combined    *)
(*   Spec     one run of belief_prop                                       *)
(***************************************************************************)
EXTENDS Integers, Sequences, FiniteSets, TLC

\* ---------------------------------------------------------------- bounds
\* longest input sequence of the Levenshtein runs
MaxLen == 3
\* elements of those sequences are 1..MaxSym
MaxSym == 2

\* usize::MAX: only ever compared, never incremented, so any value above
\* every matrix entry and every label stands for it.
UsizeMax == 2147483647

\* LabSpec: addresses are 1..MaxAddr, an edge list has at most MaxEdges
\* targets, a function at most MaxOps opcodes
MaxAddr == 2
MaxEdges == 2
MaxOps == 1
\* Spec: a call graph has at most MaxCalls edges, a run at most MaxSeeds seeds
MaxCalls == 2
MaxSeeds == 2

VARIABLES
    \* --- Spec: belief_prop
    lhsMeta, rhsMeta, \* the two ObjectMetadata: call_graph and opcode counts
    heuristics,      \* the heuristic handed to belief_prop
    tieLess,         \* how f64 rounding settles an exact tie of differences
    seeds,           \* the seed list
    seedIdx,         \* seeds consumed by the for loop
    pending,         \* BinaryHeap<PendingItem>, in push order
    matching,        \* BTreeSet of committed pairs
    matching_inv,    \* BTreeSet of the committed pairs, swapped
    computed,        \* HashSet of the pairs given to match_star
    popped,          \* the item the last round of the while loop popped
    pc,              \* "idle" | "seed" | "loop" | "done"
    \* --- LabSpec
    lhsEdges, rhsEdges,  \* the two edge sequences handed to a heuristic
    lctx,                \* MatchContext: opcode count per address and side
    coLeft, coRight,     \* CallOrder::labels of either sequence
    rcs,                 \* RelativeCodeSize::labels of the two sequences
    hsel,                \* the two heuristics given to Combined::new
    mat1, mat2, matc,    \* their matrices and that of Combined::label
    hpc,                 \* "idle" | "start" | "co" | "rcs" | "done"
    \* --- LevSpec
    s, t,        \* the two input slices
    dist,        \* result of levenshtein(s, t), -1 before the call
    mat,         \* result of levenshtein_matrix(s, t)
    ex, ey,      \* Edits.x, Edits.y
    eidx,        \* the running index i of Edits::with_indices
    buf,         \* the vector Edits::apply edits in place (starts as s)
    trail,       \* the edits yielded so far, with the cell they were taken at
    panicked,    \* an index went out of bounds or the running index underflowed
    lpc          \* "idle" | "start" | "edits" | "done"

levVars == <<s, t, dist, mat, ex, ey, eidx, buf, trail, panicked, lpc>>

labVars == <<lhsEdges, rhsEdges, lctx, coLeft, coRight, rcs, hsel, mat1, mat2, matc, hpc>>

bpVars == <<lhsMeta, rhsMeta, heuristics, tieLess, seeds, seedIdx, pending, matching, matching_inv,
           computed, popped, pc>>

vars == <<levVars, labVars, bpVars>>

Addrs == 1..MaxAddr
NoMat == [cols |-> 0, rows |-> 0, matrix |-> <<>>]
NoLabels == [labels1 |-> <<>>, labels2 |-> <<>>, matched |-> {}]

\* ------------------------------------------------------- sequence helpers
Min(a, b) == IF a <= b THEN a ELSE b
Max(a, b) == IF a >= b THEN a ELSE b

\* all sequences over S of length at most n
SeqsUpTo(S, n) == UNION {[1..k -> S] : k \in 0..n}

\* Vec::insert(pos, v), Vec::remove(pos), v[pos] = x with 0-based pos
VecInsert(v, pos, x) == SubSeq(v, 1, pos) \o <<x>> \o SubSeq(v, pos + 1, Len(v))
VecRemove(v, pos) == SubSeq(v, 1, pos) \o SubSeq(v, pos + 2, Len(v))
VecSet(v, pos, x) == [v EXCEPT ![pos + 1] = x]

\* ------------------------------------------------ levenshtein.rs: matrix
\* LevenshteinMatrix::get / set: flat row-major buffer, 0-based col and row
MatGet(m, col, row) == m.matrix[row * m.cols + col + 1]
MatSet(m, col, row, value) == [m EXCEPT !.matrix[row * m.cols + col + 1] = value]

RECURSIVE InitCols(_, _)
InitCols(m, i) == IF i = m.cols THEN m ELSE InitCols(MatSet(m, i, 0, i), i + 1)
RECURSIVE InitRows(_, _)
InitRows(m, i) == IF i = m.rows THEN m ELSE InitRows(MatSet(m, 0, i, i), i + 1)

\* LevenshteinMatrix::new(cols, rows)
MatNew(cols, rows) ==
    LET n == cols + 1
        m == rows + 1
        this == [cols |-> n, rows |-> m, matrix |-> [k \in 1..(n * m) |-> 0]]
    IN InitRows(InitCols(this, 0), 0)

\* the cell written by one iteration of the inner loop of levenshtein_matrix
CellCost(m, a, b, i, j) ==
    LET substitution_cost == IF a[i + 1] = b[j + 1] THEN 0 ELSE 1
    IN Min(Min(MatGet(m, i, j + 1) + 1, MatGet(m, i + 1, j) + 1),
           MatGet(m, i, j) + substitution_cost)

\* the two nested loops of levenshtein_matrix, j outer and i inner,
\* k = j * |a| + i counting the iterations done
RECURSIVE MatFill(_, _, _, _)
MatFill(m, a, b, k) ==
    IF k >= Len(a) * Len(b) THEN m
    ELSE LET j == k \div Len(a)
             i == k % Len(a)
         IN MatFill(MatSet(m, i + 1, j + 1, CellCost(m, a, b, i, j)), a, b, k + 1)

levenshtein_matrix(a, b) == MatFill(MatNew(Len(a), Len(b)), a, b, 0)

\* LevenshteinMatrix::distance
distance(m) == MatGet(m, m.cols - 1, m.rows - 1)

\* --------------------------------------- levenshtein.rs: two rolling rows
\* the inner loop of levenshtein over j, filling v1 from v0 (rows as
\* functions over 0..n)
RECURSIVE RowFill(_, _, _, _, _)
RowFill(v0, v1, si, b, j) ==
    IF j >= Len(b) THEN v1
    ELSE LET deletion_cost == v0[j + 1] + 1
             insertion_cost == v1[j] + 1
             substitution_cost == IF si = b[j + 1] THEN v0[j] ELSE v0[j] + 1
         IN RowFill(v0,
                    [v1 EXCEPT ![j + 1] =
                        Min(Min(deletion_cost, insertion_cost), substitution_cost)],
                    si, b, j + 1)

\* the outer loop over s, swapping the rows after each element
RECURSIVE RowsLoop(_, _, _, _, _)
RowsLoop(v0, v1, a, b, i) ==
    IF i >= Len(a) THEN v0
    ELSE LET filled == RowFill(v0, [v1 EXCEPT ![0] = i + 1], a[i + 1], b, 0)
         IN RowsLoop(filled, v0, a, b, i + 1)

\* a slip in the first row: both rows zero-filled
levenshtein_ZeroRow(a, b) ==
    LET n == Len(b)
        v0 == [j \in 0..n |-> 0]
        v1 == [j \in 0..n |-> 0]
    IN RowsLoop(v0, v1, a, b, 0)[n]

levenshtein(a, b) ==
    LET n == Len(b)
        v0 == [j \in 0..n |-> j]
        v1 == [j \in 0..n |-> 0]
    IN RowsLoop(v0, v1, a, b, 0)[n]

\* ------------------------------------------------- levenshtein.rs: edits
Insert(at) == [op |-> "Insert", at |-> at]
Delete == [op |-> "Delete", at |-> 0]
Substitute(at) == [op |-> "Substitute", at |-> at]
Noop == [op |-> "Noop", at |-> 0]

\* the three predecessors Edits::next reads, usize::MAX when the index
\* would cross 0 (checked_sub fails)
EditDiagonal(m, x, y) == IF x > 0 /\ y > 0 THEN MatGet(m, x - 1, y - 1) ELSE UsizeMax
EditLeft(m, x, y) == IF x > 0 THEN MatGet(m, x - 1, y) ELSE UsizeMax
EditUp(m, x, y) == IF y > 0 THEN MatGet(m, x, y - 1) ELSE UsizeMax

\* a slip in Edits::next: the left predecessor is tried before the diagonal
EditsNext_LeftFirst(m, x, y) ==
    LET current == MatGet(m, x, y)
        diagonal == EditDiagonal(m, x, y)
        left == EditLeft(m, x, y)
        up == EditUp(m, x, y)
    IN IF left <= up /\ left <= current
       THEN [x |-> x - 1, y |-> y, edit |-> Delete]
       ELSE IF diagonal <= up /\ diagonal <= current
       THEN [x |-> x - 1, y |-> y - 1,
             edit |-> IF diagonal = current THEN Noop ELSE Substitute(y - 1)]
       ELSE [x |-> x, y |-> y - 1, edit |-> Insert(y - 1)]

\* a slip in Edits::next: a tie of left and up goes to the up predecessor
EditsNext_UpOnTie(m, x, y) ==
    LET current == MatGet(m, x, y)
        diagonal == EditDiagonal(m, x, y)
        left == EditLeft(m, x, y)
        up == EditUp(m, x, y)
    IN IF diagonal <= left /\ diagonal <= up /\ diagonal <= current
       THEN [x |-> x - 1, y |-> y - 1,
             edit |-> IF diagonal = current THEN Noop ELSE Substitute(y - 1)]
       ELSE IF left < up /\ left <= current
       THEN [x |-> x - 1, y |-> y, edit |-> Delete]
       ELSE [x |-> x, y |-> y - 1, edit |-> Insert(y - 1)]

\* Edits::next at (x, y) /= (0, 0): the edit yielded and the new position
EditsNext(m, x, y) ==
    LET current == MatGet(m, x, y)
        diagonal == EditDiagonal(m, x, y)
        left == EditLeft(m, x, y)
        up == EditUp(m, x, y)
    IN IF diagonal <= left /\ diagonal <= up /\ diagonal <= current
       THEN [x |-> x - 1, y |-> y - 1,
             edit |-> IF diagonal = current THEN Noop ELSE Substitute(y - 1)]
       ELSE IF left <= up /\ left <= current
       THEN [x |-> x - 1, y |-> y, edit |-> Delete]
       ELSE [x |-> x, y |-> y - 1, edit |-> Insert(y - 1)]

\* a slip in with_indices: the index steps back on every edit
IndexStep_Always(edit) == 1

\* the amount Edits::with_indices subtracts from its running index
IndexStep(edit) == IF edit.op = "Insert" THEN 0 ELSE 1

\* does Edit::apply(pos, lhs, rhs) index out of bounds
ApplyPanics(edit, pos, lhs, rhs) ==
    CASE edit.op = "Insert" -> edit.at >= Len(rhs) \/ pos > Len(lhs)
      [] edit.op = "Delete" -> pos >= Len(lhs)
      [] edit.op = "Substitute" -> edit.at >= Len(rhs) \/ pos >= Len(lhs)
      [] OTHER -> FALSE

\* Edit::apply(pos, lhs, rhs)
EditApply(edit, pos, lhs, rhs) ==
    CASE edit.op = "Insert" -> VecInsert(lhs, pos, rhs[edit.at + 1])
      [] edit.op = "Delete" -> VecRemove(lhs, pos)
      [] edit.op = "Substitute" -> VecSet(lhs, pos, rhs[edit.at + 1])
      [] OTHER -> lhs

\* ------------------------------------------------ heuristics.rs: CallOrder
\* the least element of a non-empty set of numbers
SetMin(S) == CHOOSE x \in S : \A y \in S : x <= y

\* indices.sort(); indices.dedup(): the distinct addresses in ascending
\* order (every second component is None, so the pairs order by address)
RECURSIVE SortDedup(_)
SortDedup(S) == IF S = {} THEN <<>> ELSE <<SetMin(S)>> \o SortDedup(S \ {SetMin(S)})

Range(f) == {f[k] : k \in DOMAIN f}

\* binary_search_by_key over keys[lo+1..hi]: the 0-based position of addr
RECURSIVE BinarySearch(_, _, _, _)
BinarySearch(keys, addr, lo, hi) ==
    LET mid == lo + (hi - lo) \div 2
    IN IF keys[mid + 1] = addr THEN mid
       ELSE IF keys[mid + 1] < addr THEN BinarySearch(keys, addr, mid + 1, hi)
       ELSE BinarySearch(keys, addr, lo, mid)

NoneIdx == [some |-> FALSE, v |-> 0]
SomeIdx(v) == [some |-> TRUE, v |-> v]

\* the closure mapped over the slice: idx.get_or_insert_with(counter++)
RECURSIVE CallOrderWalk(_, _, _, _, _, _)
RECURSIVE CallOrderAt(_, _, _, _, _, _, _)
CallOrderAt(xs, keys, idxs, counter, k, out, i) ==
    IF idxs[i + 1].some
    THEN CallOrderWalk(xs, keys, idxs, counter, k + 1, Append(out, idxs[i + 1].v))
    ELSE CallOrderWalk(xs, keys, [idxs EXCEPT ![i + 1] = SomeIdx(counter)],
                       counter + 1, k + 1, Append(out, counter))

CallOrderWalk(xs, keys, idxs, counter, k, out) ==
    IF k > Len(xs) THEN out
    ELSE CallOrderAt(xs, keys, idxs, counter, k, out,
                     BinarySearch(keys, xs[k], 0, Len(keys)))

\* a slip: the label is the position in the sorted, deduplicated list
SortedRanks(xs, keys) == [k \in 1..Len(xs) |-> BinarySearch(keys, xs[k], 0, Len(keys))]
CallOrderLabels_SortedRank(xs) == SortedRanks(xs, SortDedup(Range(xs)))

\* CallOrder::labels
CallOrderFrom(xs, keys) ==
    CallOrderWalk(xs, keys, [k \in 1..Len(keys) |-> NoneIdx], 0, 1, <<>>)

CallOrderLabels(xs) == CallOrderFrom(xs, SortDedup(Range(xs)))

\* ----------------------------------------- heuristics.rs: RelativeCodeSize
\* len as f64 / max_len as f64, kept as the exact fraction; 0/0 is NaN
Weight(len, max_len) == [num |-> len, den |-> max_len]
IsNaN(w) == w.den = 0

\* x.to_bits() of one weight below that of another: the weights of one list
\* are all NaN (one bit pattern) or all in [0, 1], where bits order as values
BitsLess(w, v) == ~IsNaN(w) /\ ~IsNaN(v) /\ w.num * v.den < v.num * w.den

Abs(x) == IF x < 0 THEN 0 - x ELSE x

\* a quotient by a power of two is exact in f64
RECURSIVE PowerOfTwo(_)
PowerOfTwo(n) == n = 1 \/ (n > 1 /\ n % 2 = 0 /\ PowerOfTwo(n \div 2))

\* (w1 - w).abs() < (w1 - w2).abs() for w1 of one side, w and w2 of the other
\* (w and w2 share a denominator). A comparison with NaN is false. When the
\* two exact differences are equal and a quotient was rounded, the rounding
\* decides (0.5 - 1/3 > 2/3 - 0.5 in f64): the outcome is the input `tie`.
CloserThan(w1, w, w2, tie) ==
    IF IsNaN(w1) \/ IsNaN(w) \/ IsNaN(w2) THEN FALSE
    ELSE LET a == Abs(w1.num * w.den - w.num * w1.den)
             d == Abs(w1.num * w2.den - w2.num * w1.den)
         IN IF a = d
            THEN tie /\ a /= 0 /\ ~(PowerOfTwo(w1.den) /\ PowerOfTwo(w.den))
            ELSE a < d

\* the largest element of a sequence of numbers, 0 for the empty one
RECURSIVE SeqMax(_)
SeqMax(xs) == IF xs = <<>> THEN 0 ELSE Max(Head(xs), SeqMax(Tail(xs)))

\* a stable insertion of e by its weight's bits
RECURSIVE StableInsert(_, _)
StableInsert(sorted, e) ==
    IF sorted = <<>> THEN <<e>>
    ELSE IF BitsLess(e.w, sorted[Len(sorted)].w)
    THEN Append(StableInsert(SubSeq(sorted, 1, Len(sorted) - 1), e), sorted[Len(sorted)])
    ELSE Append(sorted, e)

\* weights.sort_by_key(|(_, x)| x.to_bits()), a stable sort
RECURSIVE SortByBits(_, _)
SortByBits(ws, k) == IF k = 0 THEN <<>> ELSE StableInsert(SortByBits(ws, k - 1), ws[k])

\* the inner fn weights: (index, weight) by ascending weight, opcodes one
\* side's opcode count per address
WeightsOf(lens, max_len) ==
    SortByBits([k \in 1..Len(lens) |-> [i |-> k - 1, w |-> Weight(lens[k], max_len)]],
               Len(lens))

WeightsOfLens(lens) == WeightsOf(lens, SeqMax(lens))

Weights(edges, opcodes) == WeightsOfLens([k \in 1..Len(edges) |-> opcodes[edges[k]]])

\* the while-let of the walk: it2.next_if(...) as long as the head is
\* closer to w1 than diff, which stays that of the first right element
RECURSIVE Swallow(_, _, _, _, _, _)
Swallow(it2, p2, w1, w2, i2, tie) ==
    IF p2 <= Len(it2) /\ CloserThan(w1, it2[p2].w, w2, tie)
    THEN Swallow(it2, p2 + 1, w1, w2, it2[p2].i, tie)
    ELSE [i2 |-> i2, p2 |-> p2]

\* the for loop over it1; p2 is the next unread position of it2 and
\* `matched` records the pairs (i1, i2) it labels
\* the three assignments that end one round of the walk
Matched(acc, i1, i2) ==
    [labels1 |-> [acc.labels1 EXCEPT ![i1 + 1] = i1],
     labels2 |-> [acc.labels2 EXCEPT ![i2 + 1] = i1],
     counter |-> Max(i1, acc.counter) + 1,
     matched |-> acc.matched \cup {<<i1, i2>>}]

RECURSIVE CodeSizeWalk(_, _, _, _, _, _)
RECURSIVE CodeSizeRound(_, _, _, _, _, _)
CodeSizeRound(it1, it2, k1, sw, acc, tie) ==
    CodeSizeWalk(it1, it2, k1 + 1, sw.p2, Matched(acc, it1[k1].i, sw.i2), tie)

CodeSizeWalk(it1, it2, k1, p2, acc, tie) ==
    IF k1 > Len(it1) \/ p2 > Len(it2) THEN acc
    ELSE CodeSizeRound(it1, it2, k1,
            Swallow(it2, p2 + 1, it1[k1].w, it2[p2].w, it2[p2].i, tie), acc, tie)

\* the closing loop over labels1 chained with labels2
RECURSIVE FillUnassigned(_, _, _)
FillUnassigned(labels, counter, k) ==
    IF k > Len(labels) THEN [labels |-> labels, counter |-> counter]
    ELSE IF labels[k] = UsizeMax
    THEN FillUnassigned([labels EXCEPT ![k] = counter], counter + 1, k + 1)
    ELSE FillUnassigned(labels, counter, k + 1)

\* a slip: the fresh labels of the right side restart at the walk's counter
FillRight_Restart(labels2, walked, filled1) == FillUnassigned(labels2, walked, 1)

\* the part of the closing loop that runs over labels2
FillRight(labels2, walked, filled1) == FillUnassigned(labels2, filled1, 1)

\* the closing loop over both label vectors, f1 its result on labels1
CodeSizeFilled(walk, f1) ==
    [labels1 |-> f1.labels,
     labels2 |-> FillRight(walk.labels2, walk.counter, f1.counter).labels,
     matched |-> walk.matched]

CodeSizeFill(walk) == CodeSizeFilled(walk, FillUnassigned(walk.labels1, walk.counter, 1))

\* the label vectors at usize::MAX and the walk over the sorted weights
CodeSizeFrom(it1, it2, tie) ==
    CodeSizeFill(CodeSizeWalk(it1, it2, 1, 1,
                    [labels1 |-> [k \in 1..Len(it1) |-> UsizeMax],
                     labels2 |-> [k \in 1..Len(it2) |-> UsizeMax],
                     counter |-> 0, matched |-> {}], tie))

\* RelativeCodeSize::labels, with the pairs the walk matched
CodeSizeLabels(lhs, rhs, ctx, tie) ==
    CodeSizeFrom(Weights(lhs, ctx.lhs), Weights(rhs, ctx.rhs), tie)

\* ------------------------------------------ heuristics.rs: the heuristics
CallOrder == <<"CallOrder">>
RelativeCodeSize == <<"RelativeCodeSize">>
Combined(h1, h2) == <<"Combined", h1, h2>>

\* a slip in Combined::label: a tie goes to the second heuristic
Pick_TieSecond(m1, m2) == IF distance(m1) < distance(m2) THEN m1 ELSE m2

\* the choice of Combined::label between the two matrices
Pick(m1, m2) == IF distance(m1) <= distance(m2) THEN m1 ELSE m2

\* RelativeCodeSize::label: the matrix of the two label vectors
MatrixOf(l) == levenshtein_matrix(l.labels1, l.labels2)

\* EdgeDistanceHeuristic::label of the three implementations
RECURSIVE Label(_, _, _, _, _)
Label(h, lhs, rhs, ctx, tie) ==
    CASE h[1] = "CallOrder" ->
            levenshtein_matrix(CallOrderLabels(lhs), CallOrderLabels(rhs))
      [] h[1] = "RelativeCodeSize" ->
            MatrixOf(CodeSizeLabels(lhs, rhs, ctx, tie))
      [] h[1] = "Combined" ->
            Pick(Label(h[2], lhs, rhs, ctx, tie), Label(h[3], lhs, rhs, ctx, tie))

\* ------------------------------------------------------ graph.rs: Graph
\* Graph::new: no vertex has an edge
GraphNew == [v \in Addrs |-> <<>>]

\* Graph::add_edge: append, keeping insertion order and duplicates
add_edge(g, a, b) == [g EXCEPT ![a] = Append(g[a], b)]

\* Graph::get_star: the vertex and its ordered out-neighbours
get_star(g, vertex) == [vertex |-> vertex, edges |-> g[vertex]]

\* --------------------------------------------- match_star (spec, 4.4)
\* MatchContext::new(lhs, rhs): the two sides' function metadata
MatchContextNew(l, r) == [lhs |-> l.functions, rhs |-> r.functions]

\* the walk of mat.edits() beside the edges, tail to head: Noop and
\* Substitute emit the pair at the current tail positions
RECURSIVE StarWalk(_, _, _, _, _, _)
RECURSIVE StarEdit(_, _, _, _, _, _, _)
StarEdit(m, el, er, x, y, out, n) ==
    StarWalk(m, el, er, n.x, n.y,
             IF n.edit.op \in {"Noop", "Substitute"}
             THEN Append(out, <<el[x], er[y]>>)
             ELSE out)

StarWalk(m, el, er, x, y, out) ==
    IF x = 0 /\ y = 0 THEN out
    ELSE StarEdit(m, el, er, x, y, out, EditsNext(m, x, y))

\* match_star(star0, star1, heuristics, ctx): distance and candidate pairs
StarResult(m, star0, star1) ==
    [dist |-> distance(m),
     mappings |-> StarWalk(m, star0.edges, star1.edges, m.cols - 1, m.rows - 1, <<>>)]

match_star(star0, star1, h, ctx, tb) ==
    StarResult(Label(h, star0.edges, star1.edges, ctx, tb), star0, star1)

\* ------------------------------------------- belief_prop.rs: belief_prop
\* PendingItem::new
PendingItem(pair, d, mappings) == [pair |-> pair, dist |-> d, mappings |-> mappings]

Inverted(pair) == <<pair[2], pair[1]>>

\* a slip: the push without computed.insert
Pushed_NoInsert(st, pair, r) ==
    [st EXCEPT !.pending = Append(@, PendingItem(pair, r.dist, r.mappings))]

\* the star match of one pair and its push: lines 29-34 and 53-58
Pushed(st, pair, r) ==
    [st EXCEPT !.computed = @ \cup {pair},
               !.pending = Append(@, PendingItem(pair, r.dist, r.mappings))]

Submit(st, pair, env) ==
    Pushed(st, pair,
           match_star(get_star(env.lhs.call_graph, pair[1]),
                      get_star(env.rhs.call_graph, pair[2]),
                      env.h, MatchContextNew(env.lhs, env.rhs), env.tie))

\* a slip: the queue pops in push order, whatever the distances
PopChoices_First(p) == {k \in 1..Len(p) : k = 1}

\* BinaryHeap::pop under Ord for PendingItem (dist, reversed): an item of
\* least dist; which of several with that dist is not fixed by the order
PopChoices(p) == {k \in 1..Len(p) : \A j \in 1..Len(p) : p[k].dist <= p[j].dist}

RemoveAt(p, k) == SubSeq(p, 1, k - 1) \o SubSeq(p, k + 1, Len(p))

RECURSIVE Retain(_, _, _)
Retain(p, pair, inverted) ==
    IF p = <<>> THEN <<>>
    ELSE IF Head(p).pair /= pair /\ Head(p).pair /= inverted
    THEN <<Head(p)>> \o Retain(Tail(p), pair, inverted)
    ELSE Retain(Tail(p), pair, inverted)

\* a slip: the closure of retain negated, so only the equal items stay
RECURSIVE Retain_Negated(_, _, _)
Retain_Negated(p, pair, inverted) ==
    IF p = <<>> THEN <<>>
    ELSE IF ~(Head(p).pair /= pair /\ Head(p).pair /= inverted)
    THEN <<Head(p)>> \o Retain_Negated(Tail(p), pair, inverted)
    ELSE Retain_Negated(Tail(p), pair, inverted)

\* a slip: pending.clear() in place of the retain
Purge_Clear(p, pair, inverted) == <<>>

\* pending.retain(|i| i.pair != item.pair && i.pair != inverted)
Purge(p, pair, inverted) == Retain(p, pair, inverted)

\* a slip: the computed test lost its negation
Eligible_Computed(mapping, st) ==
    /\ mapping \in st.computed
    /\ ~(\E q \in st.matching : q[1] = mapping[1])
    /\ ~(\E q \in st.matching_inv : q[1] = mapping[2])

\* a slip: no filter at all
Eligible_Always(mapping, st) == TRUE

\* a slip: the range query over matching_inv left out
Eligible_NoRight(mapping, st) ==
    /\ mapping \notin st.computed
    /\ ~(\E q \in st.matching : q[1] = mapping[1])

\* the condition of lines 45-51: not computed, and the two range queries
\* over matching and matching_inv are empty
Eligible(mapping, st) ==
    /\ mapping \notin st.computed
    /\ ~(\E q \in st.matching : q[1] = mapping[1])
    /\ ~(\E q \in st.matching_inv : q[1] = mapping[2])

\* the for loop over item.mappings
RECURSIVE Candidates(_, _, _, _)
Candidates(st, mappings, k, env) ==
    IF k > Len(mappings) THEN st
    ELSE Candidates(IF Eligible(mappings[k], st) THEN Submit(st, mappings[k], env) ELSE st,
                    mappings, k + 1, env)

\* one round of the while loop, popping pending[k]
Commit(st, k, item, inverted) ==
    [st EXCEPT !.matching = @ \cup {item.pair},
               !.matching_inv = @ \cup {inverted},
               !.pending = Purge(RemoveAt(@, k), item.pair, inverted)]

Round(st, k, env) ==
    Candidates(Commit(st, k, st.pending[k], Inverted(st.pending[k].pair)),
               st.pending[k].mappings, 1, env)

\* the state of a run before its first seed
Fresh == [pending |-> <<>>, matching |-> {}, matching_inv |-> {}, computed |-> {}]

\* ------------------------------- the parts a specification leaves idle
LevIdle ==
    /\ s = <<>> /\ t = <<>> /\ dist = -1 /\ mat = NoMat
    /\ ex = 0 /\ ey = 0 /\ eidx = 0 /\ buf = <<>> /\ trail = <<>>
    /\ panicked = FALSE /\ lpc = "idle"

LabIdle ==
    /\ lhsEdges = <<>> /\ rhsEdges = <<>>
    /\ lctx = [lhs |-> [a \in Addrs |-> 0], rhs |-> [a \in Addrs |-> 0]]
    /\ coLeft = <<>> /\ coRight = <<>> /\ rcs = NoLabels
    /\ hsel = <<>> /\ mat1 = NoMat /\ mat2 = NoMat /\ matc = NoMat
    /\ hpc = "idle"

\* ------------------------------------------------ Spec: one belief_prop
Pairs == Addrs \X Addrs

\* the call graphs n calls of add_edge can build from the empty one
RECURSIVE GraphsAfter(_)
GraphsAfter(n) ==
    IF n = 0 THEN {GraphNew}
    ELSE GraphsAfter(n - 1)
            \cup {add_edge(g, a, b) : g \in GraphsAfter(n - 1), a \in Addrs, b \in Addrs}

\* the call graphs of at most MaxCalls edges
Graphs == GraphsAfter(MaxCalls)

\* the targets of a graph's edges: the functions get_function is asked for
Targets(g) == UNION {Range(g[v]) : v \in Addrs}

\* one side's metadata: a call graph and an opcode count per function
Metadata ==
    {[call_graph |-> g, functions |-> f] :
        g \in Graphs, f \in [Addrs -> 0..MaxOps]}

\* get_function is only asked for edge targets: the other counts stay 0
Read(md) == \A a \in Addrs \ Targets(md.call_graph) : md.functions[a] = 0

\* the rounding outcomes that can matter: none when every quotient is exact
Ties == IF \A n \in 1..MaxOps : PowerOfTwo(n) THEN {FALSE} ELSE BOOLEAN

Env == [lhs |-> lhsMeta, rhs |-> rhsMeta, h |-> heuristics, tie |-> tieLess]
State == [pending |-> pending, matching |-> matching, matching_inv |-> matching_inv,
          computed |-> computed]
NoItem == PendingItem(<<0, 0>>, 0, <<>>)

BpIdle ==
    /\ lhsMeta = [call_graph |-> GraphNew, functions |-> [a \in Addrs |-> 0]]
    /\ rhsMeta = [call_graph |-> GraphNew, functions |-> [a \in Addrs |-> 0]]
    /\ heuristics = CallOrder /\ tieLess = FALSE
    /\ seeds = <<>> /\ seedIdx = 0
    /\ pending = <<>> /\ matching = {} /\ matching_inv = {} /\ computed = {}
    /\ popped = NoItem /\ pc = "idle"

\* before the call
Init == LevIdle /\ LabIdle /\ BpIdle

\* the call belief_prop(lhs, rhs, seeds, heuristics): the arguments, and
\* the four collections created empty (lines 22-25)
Call ==
    /\ pc = "idle"
    /\ lhsMeta' \in {md \in Metadata : Read(md)}
    /\ rhsMeta' \in {md \in Metadata : Read(md)}
    /\ heuristics' = Combined(RelativeCodeSize, CallOrder)
    /\ tieLess' \in Ties
    /\ seeds' \in SeqsUpTo(Pairs, MaxSeeds)
    /\ seedIdx' = 0
    /\ pending' = <<>> /\ matching' = {} /\ matching_inv' = {} /\ computed' = {}
    /\ popped' = NoItem /\ pc' = "seed"
    /\ UNCHANGED <<levVars, labVars>>

\* the four collections of the run take the values of n
Becomes(n) ==
    /\ pending' = n.pending
    /\ matching' = n.matching
    /\ matching_inv' = n.matching_inv
    /\ computed' = n.computed

\* one round of the for loop over the seeds
Seed ==
    /\ pc = "seed" /\ seedIdx < Len(seeds)
    /\ Becomes(Submit(State, seeds[seedIdx + 1], Env))
    /\ seedIdx' = seedIdx + 1
    /\ UNCHANGED <<lhsMeta, rhsMeta, heuristics, tieLess, seeds, popped, pc>>
    /\ UNCHANGED <<levVars, labVars>>

\* the seeds are exhausted: on to the while loop
SeedsDone ==
    /\ pc = "seed" /\ seedIdx = Len(seeds)
    /\ pc' = "loop"
    /\ UNCHANGED <<lhsMeta, rhsMeta, heuristics, tieLess, seeds, seedIdx, pending, matching,
                   matching_inv, computed, popped>>
    /\ UNCHANGED <<levVars, labVars>>

\* one round of the while loop: pop, commit, purge, queue the candidates
Step ==
    /\ pc = "loop" /\ pending /= <<>>
    /\ \E k \in PopChoices(pending) :
         /\ popped' = pending[k]
         /\ Becomes(Round(State, k, Env))
    /\ UNCHANGED <<lhsMeta, rhsMeta, heuristics, tieLess, seeds, seedIdx, pc>>
    /\ UNCHANGED <<levVars, labVars>>

\* pending.pop() is None: the mapping is returned
Return ==
    /\ pc = "loop" /\ pending = <<>>
    /\ pc' = "done"
    /\ UNCHANGED <<lhsMeta, rhsMeta, heuristics, tieLess, seeds, seedIdx, pending, matching,
                   matching_inv, computed, popped>>
    /\ UNCHANGED <<levVars, labVars>>

Next == Call \/ Seed \/ SeedsDone \/ Step \/ Return

Spec == Init /\ [][Next]_vars

\* ------------------------------------------------------ LevSpec: one run
LevInit ==
    /\ LabIdle /\ BpIdle
    /\ s \in SeqsUpTo(1..MaxSym, MaxLen)
    /\ t \in SeqsUpTo(1..MaxSym, MaxLen)
    /\ dist = -1 /\ mat = NoMat
    /\ ex = 0 /\ ey = 0 /\ eidx = 0 /\ buf = <<>> /\ trail = <<>>
    /\ panicked = FALSE /\ lpc = "start"

\* the test's calls: levenshtein(s, t), levenshtein_matrix(s, t), a copy of
\* s, result.edits() and the start of with_indices
LevCompute ==
    /\ lpc = "start"
    /\ dist' = levenshtein(s, t)
    /\ mat' = levenshtein_matrix(s, t)
    /\ ex' = mat'.cols - 1
    /\ ey' = mat'.rows - 1
    /\ eidx' = mat'.cols - 1
    /\ buf' = s
    /\ lpc' = "edits"
    /\ UNCHANGED <<s, t, trail, panicked>>
    /\ UNCHANGED <<labVars, bpVars>>

\* one round of the loop of Edits::apply: next(), the index update of
\* with_indices, Edit::apply
LevEdit ==
    /\ lpc = "edits"
    /\ ~panicked
    /\ ~(ex = 0 /\ ey = 0)
    /\ LET n == EditsNext(mat, ex, ey)
           i == eidx - IndexStep(n.edit)
       IN /\ ex' = n.x
          /\ ey' = n.y
          /\ trail' = Append(trail, [edit |-> n.edit, x |-> ex, y |-> ey, pos |-> i])
          /\ IF i < 0 \/ ApplyPanics(n.edit, i, buf, t)
             THEN panicked' = TRUE /\ UNCHANGED <<eidx, buf>>
             ELSE /\ panicked' = FALSE
                  /\ eidx' = i
                  /\ buf' = EditApply(n.edit, i, buf, t)
    /\ UNCHANGED <<s, t, dist, mat, lpc>>
    /\ UNCHANGED <<labVars, bpVars>>

\* Edits::next returns None
LevFinish ==
    /\ lpc = "edits"
    /\ ~panicked
    /\ ex = 0 /\ ey = 0
    /\ lpc' = "done"
    /\ UNCHANGED <<s, t, dist, mat, ex, ey, eidx, buf, trail, panicked>>
    /\ UNCHANGED <<labVars, bpVars>>

LevNext == LevCompute \/ LevEdit \/ LevFinish

LevSpec == LevInit /\ [][LevNext]_vars

\* ------------------------------------------------ LabSpec: one labelling
\* opcode counts of one side: an address no edge names is never looked up
Opcodes(edges) ==
    {f \in [Addrs -> 0..MaxOps] : \A a \in Addrs \ Range(edges) : f[a] = 0}

LabInit ==
    /\ LevIdle /\ BpIdle
    /\ lhsEdges \in SeqsUpTo(Addrs, MaxEdges)
    /\ rhsEdges \in SeqsUpTo(Addrs, MaxEdges)
    /\ \E l \in Opcodes(lhsEdges), r \in Opcodes(rhsEdges) : lctx = [lhs |-> l, rhs |-> r]
    /\ coLeft = <<>> /\ coRight = <<>> /\ rcs = NoLabels
    /\ hsel = <<>> /\ mat1 = NoMat /\ mat2 = NoMat /\ matc = NoMat
    /\ hpc = "start"

\* CallOrder::labels on either sequence
LabCallOrder ==
    /\ hpc = "start"
    /\ coLeft' = CallOrderLabels(lhsEdges)
    /\ coRight' = CallOrderLabels(rhsEdges)
    /\ hpc' = "co"
    /\ UNCHANGED <<lhsEdges, rhsEdges, lctx, rcs, hsel, mat1, mat2, matc>>
    /\ UNCHANGED <<levVars, bpVars>>

\* RelativeCodeSize.labels(lhs, rhs, ctx)
LabCodeSize ==
    /\ hpc = "co"
    /\ \E tb \in Ties : rcs' = CodeSizeLabels(lhsEdges, rhsEdges, lctx, tb)
    /\ hpc' = "rcs"
    /\ UNCHANGED <<lhsEdges, rhsEdges, lctx, coLeft, coRight, hsel, mat1, mat2, matc>>
    /\ UNCHANGED <<levVars, bpVars>>

\* Combined::new(h1, h2).label(lhs, rhs, ctx), beside h1.label and h2.label
LabCombine ==
    /\ hpc = "rcs"
    /\ \E h \in {<<RelativeCodeSize, CallOrder>>, <<CallOrder, RelativeCodeSize>>},
          tb \in Ties :
            /\ hsel' = h
            /\ mat1' = Label(h[1], lhsEdges, rhsEdges, lctx, tb)
            /\ mat2' = Label(h[2], lhsEdges, rhsEdges, lctx, tb)
            /\ matc' = Label(Combined(h[1], h[2]), lhsEdges, rhsEdges, lctx, tb)
    /\ hpc' = "done"
    /\ UNCHANGED <<lhsEdges, rhsEdges, lctx, coLeft, coRight, rcs>>
    /\ UNCHANGED <<levVars, bpVars>>

LabNext == LabCallOrder \/ LabCodeSize \/ LabCombine

LabSpec == LabInit /\ [][LabNext]_vars

\* --------------------------------------------------------- claims, Spec
\* C1: the matching is one-to-one in every state of the main loop: no two
\* distinct pairs of it share a left address or share a right address.
C1_Injective ==
    \A p \in matching, q \in matching : p /= q => p[1] /= q[1] /\ p[2] /= q[2]

\* the vertices reachable from v over the edges of g, v included
RECURSIVE Reach(_, _)
Reach(g, seen) ==
    IF UNION {Range(g[v]) : v \in seen} \subseteq seen THEN seen
    ELSE Reach(g, seen \cup UNION {Range(g[v]) : v \in seen})

IdenticalRun ==
    /\ lhsMeta = rhsMeta
    /\ Len(seeds) = 1 /\ seeds[1][1] = seeds[1][2]

\* C4: on identical call graphs seeded with (e, e) alone, belief_prop returns
\* exactly the identity pairs of the vertices reachable from e.
C4_Identity ==
    (pc = "done" /\ IdenticalRun) =>
        matching = {<<v, v>> : v \in Reach(lhsMeta.call_graph, {seeds[1][1]})}

\* such a run returned, having matched a vertex beyond the entrypoint
C4_Witness ==
    /\ pc = "done" /\ IdenticalRun
    /\ \E v \in Addrs : v /= seeds[1][1] /\ <<v, v>> \in matching

\* what is left to do: seeds to consume, pairs not yet given to match_star,
\* items to pop, and the loops to leave
Variant ==
    2 * (Len(seeds) - seedIdx) + Cardinality(Pairs \ computed) + Len(pending)
        + (CASE pc = "seed" -> 2 [] pc = "loop" -> 1 [] OTHER -> 0)

\* belief_prop can take its next step: the for loop has a seed or ends, the
\* while loop has an item to pop or ends
CanRun ==
    \/ pc = "seed" /\ seedIdx <= Len(seeds)
    \/ pc = "loop" /\ (pending = <<>> \/ PopChoices(pending) /= {})

\* C5: the main loop reaches an empty pending queue and belief_prop returns:
\* until it has returned it can always take a step, and every step lowers
\* a natural number, so only finitely many steps are taken.
C5_Terminates ==
    /\ [](pc \in {"seed", "loop"} => CanRun /\ Variant >= 0)
    /\ [][pc /= "idle" => Variant' < Variant]_vars

\* a run on a seed list with a repeated seed returned a matching that grew
\* beyond the seeds
C5_Witness ==
    /\ pc = "done" /\ Len(seeds) = 2 /\ seeds[1] = seeds[2]
    /\ matching \ Range(seeds) /= {}

PendingPairs(p) == {p[k].pair : k \in 1..Len(p)}

\* another committed pair holds the first or the second component of sd
Conflicts(sd, m) == \E q \in m : q /= sd /\ (q[1] = sd[1] \/ q[2] = sd[2])

\* the seeds a round removes from pending
SeedsLeaving(p, q) == (Range(seeds) \cap PendingPairs(p)) \ PendingPairs(q)

\* C6 as stated: a seed leaves pending only committed, or with another pair
\* of its first or second component committed by then.
C6_SeedInclusion ==
    [][\A sd \in SeedsLeaving(pending, pending') :
          sd \in matching' \/ Conflicts(sd, matching')]_vars

\* C6 amended: a seed leaves pending only committed, or with another pair of
\* its first or second component committed by then, or with its swapped
\* pair committed by then (the purge drops the swapped pair too).
C6_SeedInclusionOrSwapped ==
    [][\A sd \in SeedsLeaving(pending, pending') :
          sd \in matching' \/ Conflicts(sd, matching') \/ Inverted(sd) \in matching']_vars

\* two seeds, both committed; one of them the other's swapped pair would
\* have been purged instead
C6_Witness ==
    /\ pc = "done" /\ Len(seeds) = 2 /\ seeds[1] /= seeds[2]
    /\ Range(seeds) \subseteq matching

\* the for loop over a seed list, from the fresh state
RECURSIVE Seeded(_, _, _)
Seeded(st, sds, env) ==
    IF sds = <<>> THEN st ELSE Seeded(Submit(st, Head(sds), env), Tail(sds), env)

\* every matching the while loop can return from st, over the pop choices
RECURSIVE FinalMatchings(_, _)
FinalMatchings(st, env) ==
    IF st.pending = <<>> THEN {st.matching}
    ELSE UNION {FinalMatchings(Round(st, k, env), env) : k \in PopChoices(st.pending)}

\* the matchings belief_prop can return on a seed list
Returns(sds) == FinalMatchings(Seeded(Fresh, sds, Env), Env)

Front(xs) == SubSeq(xs, 1, Len(xs) - 1)
LastRepeats(xs) == Len(xs) >= 2 /\ xs[Len(xs)] \in Range(Front(xs))

\* C7: a seed submitted twice changes nothing: for every seed of the list,
\* the matchings belief_prop can return with that seed submitted once more
\* are exactly those it can return on the list itself (over the pop orders
\* of equal distances), and the matching a run returns is among them.
C7_DuplicateSeeds ==
    /\ (pc = "seed" /\ seedIdx = 0) =>
          \A k \in 1..Len(seeds) : Returns(Append(seeds, seeds[k])) = Returns(seeds)
    /\ pc = "done" =>
          /\ matching \in Returns(seeds)
          /\ LastRepeats(seeds) => matching \in Returns(Front(seeds))

\* a run whose last seed repeats an earlier one returned, with candidates
\* committed after the seed
C7_Witness ==
    /\ pc = "done" /\ LastRepeats(seeds)
    /\ matching \ Range(seeds) /= {}

\* the seeds consumed so far that repeated an earlier seed
RepeatedSeeds == seedIdx - Cardinality(Range(SubSeq(seeds, 1, seedIdx)))

\* C11 as stated: in every state of a run, repeated seeds included, pending
\* holds at most as many items as computed holds pairs.
C11_MemoryBound == Len(pending) <= Cardinality(computed)

\* C11 amended: pending holds at most as many items as computed holds pairs
\* plus the seeds consumed that repeated an earlier seed; with no repeated
\* seed that is |P| <= |C|.
C11_MemoryBoundRepeats == Len(pending) <= Cardinality(computed) + RepeatedSeeds

\* a seed was pushed twice and inserted into computed once; the while loop
\* is about to run
C11_Witness ==
    /\ pc = "loop" /\ Len(seeds) = 2 /\ seeds[1] = seeds[2]
    /\ Len(pending) = 2 /\ Cardinality(computed) = 1

\* the items of p that stay queued when item is popped and committed
Remaining(p, item) == Purge(p, item.pair, Inverted(item.pair))

NoneBelow(item, p) == \A j \in 1..Len(p) : item.dist <= p[j].dist

\* C13: the item a round of the while loop pops has a distance at most that
\* of every item queued at the pop, and so at most that of every item the
\* purge leaves queued, which stay queued in their order.
C13_BestFirst ==
    [][(pc = "loop" /\ pending /= <<>>) =>
          /\ NoneBelow(popped', pending)
          /\ NoneBelow(popped', Remaining(pending, popped'))
          /\ SubSeq(pending', 1, Len(Remaining(pending, popped')))
                = Remaining(pending, popped')]_vars

\* a seed popped and committed while another seed of greater distance
\* stays queued
C13_Witness ==
    /\ pc = "loop" /\ popped.pair \in matching
    /\ \E j \in 1..Len(pending) :
          pending[j].pair \in Range(seeds) /\ pending[j].dist > popped.dist

\* the candidates of item that are not in C and whose components no pair
\* of M holds as first, respectively second, component
Schedulable(item, C, M) ==
    {q \in Range(item.mappings) :
        /\ q \notin C
        /\ ~(\E m \in M : m[1] = q[1])
        /\ ~(\E m \in M : m[2] = q[2])}

\* the items a round queued behind those the purge left
Queued(p, q, item) == SubSeq(q, Len(Remaining(p, item)) + 1, Len(q))

\* the star match of a pair on the run's two graphs
StarMatched(pair) ==
    match_star(get_star(lhsMeta.call_graph, pair[1]), get_star(rhsMeta.call_graph, pair[2]),
               heuristics, MatchContextNew(lhsMeta, rhsMeta), tieLess)

IsQueuedItem(i) ==
    i = PendingItem(i.pair, StarMatched(i.pair).dist, StarMatched(i.pair).mappings)

\* C14: a round of the while loop star-matches, inserts into C and pushes
\* onto P exactly the candidates of the popped item that, when reached, are
\* not in C and share no first and no second component with a pair of M,
\* each once; every other candidate leaves P, C and M as they are.
C14_CandidateFilter ==
    [][(pc = "loop" /\ pending /= <<>>) =>
          /\ matching' = matching \cup {popped'.pair}
          /\ computed' = computed \cup Schedulable(popped', computed, matching')
          /\ Len(pending') = Len(Remaining(pending, popped'))
                + Cardinality(Schedulable(popped', computed, matching'))
          /\ PendingPairs(Queued(pending, pending', popped'))
                = Schedulable(popped', computed, matching')
          /\ \A k \in 1..Len(Queued(pending, pending', popped')) :
                IsQueuedItem(Queued(pending, pending', popped')[k])]_vars

\* a round queued one candidate of the popped item and dropped another
\* that was not in C
C14_Witness ==
    /\ pc = "loop" /\ popped.pair \in matching
    /\ \E q \in Range(popped.mappings) : q \in PendingPairs(pending) /\ q \notin Range(seeds)
    /\ \E q \in Range(popped.mappings) : q \notin computed

\* ------------------------------------------------------ claims, LabSpec
\* the position at which address a first occurs in xs
FirstOccurrence(xs, a) == SetMin({k \in 1..Len(xs) : xs[k] = a})

\* the number of distinct addresses first seen before xs[i] is first seen
FirstOccurrenceRank(xs, i) ==
    Cardinality({b \in Range(xs) : FirstOccurrence(xs, b) < FirstOccurrence(xs, xs[i])})

IsFirstOccurrenceRanks(xs, labels) ==
    /\ Len(labels) = Len(xs)
    /\ \A i \in 1..Len(xs) : labels[i] = FirstOccurrenceRank(xs, i)

\* C8: CallOrder::labels(xs) has the length of xs and its i-th element is the
\* first-occurrence rank of xs[i].
C8_CallOrderRanks ==
    hpc \in {"co", "rcs", "done"} =>
        /\ IsFirstOccurrenceRanks(lhsEdges, coLeft)
        /\ IsFirstOccurrenceRanks(rhsEdges, coRight)

\* labelled a sequence whose first address is not its smallest
C8_Witness ==
    /\ hpc = "co" /\ Len(lhsEdges) >= 2
    /\ lhsEdges[1] > lhsEdges[2]
    /\ coLeft[1] = 0 /\ coLeft[2] = 1

MatchedLeft == {p[1] : p \in rcs.matched}
MatchedRight == {p[2] : p \in rcs.matched}
\* the edges the walk left unmatched, tagged by side, with their labels
UnmatchedEdges ==
    {<<"l", i>> : i \in (0..(Len(lhsEdges) - 1)) \ MatchedLeft}
        \cup {<<"r", i>> : i \in (0..(Len(rhsEdges) - 1)) \ MatchedRight}
LabelOf(e) == IF e[1] = "l" THEN rcs.labels1[e[2] + 1] ELSE rcs.labels2[e[2] + 1]
MatchedLabels == {rcs.labels1[i + 1] : i \in MatchedLeft} \cup {rcs.labels2[i + 1] : i \in MatchedRight}

\* C9: after RelativeCodeSize::labels every pair matched by the sorted walk
\* carries the left edge's index on both sides, every unmatched edge carries
\* a label unlike every matched label and every other unmatched label of
\* either side, and no label is left at the sentinel.
C9_CodeSizeLabels ==
    hpc \in {"rcs", "done"} =>
        /\ Len(rcs.labels1) = Len(lhsEdges) /\ Len(rcs.labels2) = Len(rhsEdges)
        /\ \A p \in rcs.matched : rcs.labels1[p[1] + 1] = p[1] /\ rcs.labels2[p[2] + 1] = p[1]
        /\ \A e \in UnmatchedEdges :
              /\ LabelOf(e) \notin MatchedLabels
              /\ \A f \in UnmatchedEdges \ {e} : LabelOf(f) /= LabelOf(e)
        /\ \A k \in 1..Len(rcs.labels1) : rcs.labels1[k] /= UsizeMax
        /\ \A k \in 1..Len(rcs.labels2) : rcs.labels2[k] /= UsizeMax

\* a labelling with a matched pair and an unmatched edge on either side
C9_Witness ==
    /\ hpc = "rcs" /\ rcs.matched /= {}
    /\ \E e, f \in UnmatchedEdges : e[1] = "l" /\ f[1] = "r"

\* C10: Combined(H1, H2).label returns the matrix of the sub-heuristic with
\* the smaller distance, H1's when the distances are equal, so its distance
\* is at most either of theirs.
C10_Combined ==
    hpc = "done" =>
        /\ distance(mat1) <= distance(mat2) => matc = mat1
        /\ distance(mat2) < distance(mat1) => matc = mat2
        /\ distance(matc) <= distance(mat1) /\ distance(matc) <= distance(mat2)

\* a tie between two sub-heuristics whose matrices differ
C10_Witness ==
    /\ hpc = "done" /\ distance(mat1) = distance(mat2)
    /\ mat1 /= mat2 /\ matc = mat1

\* ------------------------------------------------------ claims, LevSpec
\* the Levenshtein distance as the recurrence defines it:
\* D[i,0] = i, D[0,j] = j, D[i,j] = min(D[i-1,j]+1, D[i,j-1]+1, D[i-1,j-1]+(a[i]/=b[j]))
RefDistance(a, b) ==
    LET D[i \in 0..Len(a), j \in 0..Len(b)] ==
            IF j = 0 THEN i
            ELSE IF i = 0 THEN j
            ELSE Min(Min(D[i - 1, j] + 1, D[i, j - 1] + 1),
                     D[i - 1, j - 1] + (IF a[i] = b[j] THEN 0 ELSE 1))
    IN D[Len(a), Len(b)]

TrailHas(op) == \E k \in 1..Len(trail) : trail[k].edit.op = op

\* C2: applying the edits of levenshtein_matrix(s, t).edits(), in iterator
\* order and at the indices of with_indices, to a copy of s gives exactly t,
\* with no index out of bounds and no underflow of the running index.
C2_RoundTrip == ~panicked /\ (lpc = "done" => buf = t)

\* a finished run that inserted and also deleted or substituted
C2_Witness ==
    /\ lpc = "done" /\ s /= t /\ buf = t
    /\ TrailHas("Insert")
    /\ TrailHas("Substitute") \/ TrailHas("Delete")

\* the number of edits yielded so far whose kind is in ops
CountOps(ops) == Cardinality({k \in 1..Len(trail) : trail[k].edit.op \in ops})

\* C12: the edit script is optimal: edits() ends at cell (0, 0) after at most
\* |s| + |t| edits, its edits other than Noop number distance(), |s| of its
\* edits are Delete, Substitute or Noop and |t| are Insert, Substitute or
\* Noop, and a Noop is only yielded at a cell (x, y) with s[x-1] = t[y-1].
C12_OptimalScript ==
    /\ lpc = "edits" => Len(trail) + ex + ey <= Len(s) + Len(t)
    /\ \A k \in 1..Len(trail) :
          trail[k].edit.op = "Noop" =>
              /\ trail[k].x >= 1 /\ trail[k].y >= 1
              /\ s[trail[k].x] = t[trail[k].y]
    /\ lpc = "done" =>
          /\ ex = 0 /\ ey = 0
          /\ CountOps({"Insert", "Delete", "Substitute"}) = distance(mat)
          /\ CountOps({"Delete", "Substitute", "Noop"}) = Len(s)
          /\ CountOps({"Insert", "Substitute", "Noop"}) = Len(t)

\* a finished script with a Noop, a Substitute and a Delete or an Insert
C12_Witness ==
    /\ lpc = "done" /\ distance(mat) = 2
    /\ TrailHas("Noop") /\ TrailHas("Substitute")
    /\ TrailHas("Delete") \/ TrailHas("Insert")

\* the value of a predecessor cell, +infinity when it would cross index 0
PolicyCell(m, x, y) == IF x < 0 \/ y < 0 THEN UsizeMax ELSE MatGet(m, x, y)

\* the backtrack policy at (x, y): diagonal when its value is at most the
\* left and the up value, else left when left is at most up, else up; the
\* current value only tells Noop from Substitute
PolicyNext(m, x, y) ==
    LET diagonal == PolicyCell(m, x - 1, y - 1)
        left == PolicyCell(m, x - 1, y)
        up == PolicyCell(m, x, y - 1)
    IN IF diagonal <= left /\ diagonal <= up
       THEN [x |-> x - 1, y |-> y - 1,
             edit |-> IF diagonal = MatGet(m, x, y) THEN Noop ELSE Substitute(y - 1)]
       ELSE IF left <= up
       THEN [x |-> x - 1, y |-> y, edit |-> Delete]
       ELSE [x |-> x, y |-> y - 1, edit |-> Insert(y - 1)]

\* the cell Edits::next moved to from the k-th cell it visited
MovedTo(k) ==
    IF k < Len(trail) THEN <<trail[k + 1].x, trail[k + 1].y>> ELSE <<ex, ey>>

\* C15: at every cell (x, y) /= (0, 0) that Edits::next visits on a matrix of
\* levenshtein_matrix, the move and the edit are those of the backtrack
\* policy, which never looks at the current value to choose the move.
C15_BacktrackPolicy ==
    \A k \in 1..Len(trail) :
        /\ trail[k].edit = PolicyNext(mat, trail[k].x, trail[k].y).edit
        /\ MovedTo(k) = <<PolicyNext(mat, trail[k].x, trail[k].y).x,
                          PolicyNext(mat, trail[k].x, trail[k].y).y>>

\* a script that moved left where left and up were equal and below the
\* diagonal, and moved up somewhere else
C15_Witness ==
    /\ lpc = "done"
    /\ \E k \in 1..Len(trail) :
          /\ trail[k].edit.op = "Delete" /\ trail[k].x >= 1 /\ trail[k].y >= 1
          /\ MatGet(mat, trail[k].x - 1, trail[k].y) = MatGet(mat, trail[k].x, trail[k].y - 1)
    /\ TrailHas("Insert")

\* C3: levenshtein(s, t) and levenshtein_matrix(s, t).distance() both return
\* D[|s|,|t|] of the recurrence, for every s and t, empty ones included.
C3_Distance ==
    lpc \in {"edits", "done"} =>
        /\ dist = RefDistance(s, t)
        /\ distance(mat) = RefDistance(s, t)

\* both routines have run on unequal, non-empty inputs of different lengths
C3_Witness ==
    /\ lpc = "edits" /\ Len(s) > 0 /\ Len(t) > Len(s)
    /\ dist = 2 /\ distance(mat) = 2

====
